---- MODULE Spec2Model ----
(***************************************************************************)
(* The live chat-room runtime of main.py: the ConnectionManager registry   *)
(* and broadcast, the websocket_endpoint session task and handle_command.  *)
(* One asyncio task runs per websocket; tasks interleave only at awaits,   *)
(* so every action below is the code between two awaits of one task.       *)
(***************************************************************************)
EXTENDS Integers, Sequences, FiniteSets, TLC

\* ------------------------------------------------------------------ bounds
\* Inbound messages the sessions read in total.
MaxMsgs == 2

\* The same, in the runs that start from a room with two members.
RoomMsgs == 1

\* Websocket handles (one session task each), user ids, room ids.
Conns == {1, 2, 3}
Users == {1, 2, 3}
Rooms == {1}

\* None, where a connection is expected (get_connection's "return None").
NoConn == 0

\* Close codes of fastapi.status.
WS_1000_NORMAL_CLOSURE == 1000
WS_1008_POLICY_VIOLATION == 1008

RoomRoleNames == {"owner", "host", "user"}
GlobalRoleNames == {"user", "sysop"}
Commands == {"kick", "warn", "assign_host", "assign_owner", "ban"}

\* Identity tokens a client can present: none, text that is no integer, an integer.
Tokens ==
    {[kind |-> "absent", val |-> 0], [kind |-> "text", val |-> 0]}
        \cup {[kind |-> "int", val |-> u] : u \in Users \cup {9}}

\* Chat texts, as sequences of characters; " " is whitespace.
Texts == {<<>>, <<" ">>, <<" ", "h", " ">>}

VARIABLES
    rooms,        \* manager.rooms: room id -> list of connection handles
    conn,         \* the conn_info dict of each handle: user_id, role
    room_roles,   \* table room_roles: <<room, user>> -> role ("user": no row)
    room_bans,    \* table room_bans: set of <<room, user>>
    users,        \* table users: user id -> global role
    ws,           \* each websocket's transport: state and close code
    pc,           \* where each session task is suspended
    local,        \* each session task's room_id and user_id
    frame,        \* the broadcast each task is inside: snapshot, index, context
    kick,         \* the target handle a task is about to force-close
    budget,       \* inbound messages still to be read
    nbc,          \* broadcasts invoked so far
    njoined,      \* per session: user_joined broadcasts it invoked
    nleft,        \* per handle: user_left broadcasts naming its conn_info
    lastSeq,      \* per handle: number of the last broadcast delivered to it
    lastEvent,    \* the payload of the last broadcast invoked
    lastPriv,     \* the last private event delivered: type, to, by
    lastCmd,      \* the last handle_command decision
    lastLeave,    \* the last manager.disconnect call and what it returned
    skipped,      \* handles a broadcast never tried because it raised
    exc           \* per session: the exception that escaped its handler

vars == <<rooms, conn, room_roles, room_bans, users, ws, pc, local, frame, kick,
          budget, nbc, njoined, nleft, lastSeq, lastEvent, lastPriv, lastCmd,
          lastLeave, skipped, exc>>

hist == <<njoined, nleft, lastSeq, lastEvent, lastPriv, lastCmd, lastLeave, skipped>>

\* ------------------------------------------------------- ConnectionManager
\* self.rooms.get(room_id, [])
RoomConns(r) == IF r \in DOMAIN rooms THEN rooms[r] ELSE <<>>

\* self.rooms[room_id] = conns
SetRoom(r, l) == [x \in DOMAIN rooms \cup {r} |-> IF x = r THEN l ELSE rooms[x]]

InList(l, c) == \E i \in 1..Len(l) : l[i] = c

Members(r) == {RoomConns(r)[i] : i \in 1..Len(RoomConns(r))}

\* list.remove(conn): the entries of a room's list are distinct dicts
ListRemove(l, c) == SelectSeq(l, LAMBDA x : x # c)

\* get_room_users reading the list as it was before the newest entry went in
UsersOf_BeforeAppend(l, cs) ==
    [i \in 1..(Len(l) - 1) |-> [user_id |-> cs[l[i]].user_id, role |-> cs[l[i]].role]]

\* get_room_users over a list of handles, reading the live dicts cs
UsersOf(l, cs) ==
    [i \in 1..Len(l) |-> [user_id |-> cs[l[i]].user_id, role |-> cs[l[i]].role]]

\* get_connection: the first entry of the room whose user_id matches, or none
FirstMatch(l, u) ==
    IF \E i \in 1..Len(l) : conn[l[i]].user_id = u
    THEN l[CHOOSE i \in 1..Len(l) :
              /\ conn[l[i]].user_id = u
              /\ \A j \in 1..(i - 1) : conn[l[j]].user_id # u]
    ELSE NoConn

\* get_connection looking the user up among the connections of every room
get_connection_AnyRoom(r, u) ==
    IF \E c \in Conns : conn[c].user_id = u /\ \E x \in DOMAIN rooms : InList(rooms[x], c)
    THEN CHOOSE c \in Conns :
             conn[c].user_id = u /\ \E x \in DOMAIN rooms : InList(rooms[x], c)
    ELSE NoConn

get_connection(r, u) == FirstMatch(RoomConns(r), u)

\* roles.get(user_id, "user") over get_room_roles(room_id)
RoleOf(r, u) == room_roles[<<r, u>>]

\* is_banned binding its two parameters to the query in the wrong order
is_banned_ArgsSwapped(r, u) == <<u, r>> \in room_bans

is_banned(r, u) == <<r, u>> \in room_bans

\* A send or close on a transport that is no longer open raises.
Sendable(c) == ws[c].state = "open"

NoFrame == [room |-> 0, snap |-> <<>>, idx |-> 0, ctx |-> "none", seq |-> 0]
NoEvent == [type |-> "none", seq |-> 0, room |-> 0, user_id |-> 0, ws |-> NoConn,
            users |-> <<>>, message |-> <<>>, role |-> "none"]
NoPriv == [type |-> "none", to |-> NoConn, by |-> NoConn]
NoCmd == [by |-> NoConn, command |-> "none", global_role |-> "user",
          caller_role |-> "user", allowed |-> FALSE]
NoLeave == [by |-> NoConn, found |-> FALSE, returned |-> NoConn, changed |-> FALSE,
            raised |-> FALSE]

\* ------------------------------------------------------------ pure helpers
\* str.strip() on a text
RECURSIVE LStrip(_)
LStrip(t) == IF t # <<>> /\ Head(t) = " " THEN LStrip(Tail(t)) ELSE t

RECURSIVE RStrip(_)
RStrip(t) ==
    IF t # <<>> /\ t[Len(t)] = " " THEN RStrip(SubSeq(t, 1, Len(t) - 1)) ELSE t

Strip(t) == RStrip(LStrip(t))

\* The user id websocket_endpoint resolves from the cookie, else from the query
\* parameter; 0 when the attempt is rejected (absent, not an integer, no such user).
ResolveUser(cookie, query) ==
    LET tok == IF cookie.kind # "absent" THEN cookie ELSE query
    IN  IF tok.kind = "int" /\ tok.val \in DOMAIN users THEN tok.val ELSE 0

\* has_privilege letting a host assign roles as an owner does
has_privilege_HostAssigns(global_role, caller_role, action) ==
    global_role = "sysop"
        \/ (action \in {"kick", "warn", "assign_host", "assign_owner"}
              /\ caller_role \in {"owner", "host"})

\* has_privilege(action) inside handle_command
has_privilege(global_role, caller_role, action) ==
    IF global_role = "sysop" THEN TRUE
    ELSE IF action \in {"kick", "warn"} /\ caller_role \in {"owner", "host"} THEN TRUE
    ELSE IF action \in {"assign_host", "assign_owner"} /\ caller_role = "owner" THEN TRUE
    ELSE FALSE

\* The branch of handle_command's if/elif chain a command takes.
Allowed(global_role, caller_role, command) ==
    /\ command \in {"kick", "warn", "assign_host", "assign_owner"}
    /\ has_privilege(global_role, caller_role, command)

db == <<room_roles, room_bans, users>>

\* The server closes a transport still open when its handler returns or raises.
Exit(w, c) == IF w[c].state = "closed" THEN w ELSE [w EXCEPT ![c].state = "closed"]

\* After sending every broadcast's caller back into the message loop
After_BackToLoop(ctx) == "recv"

\* Where a task goes on after a broadcast it awaited returns.
After(ctx) == IF ctx = "finally" THEN "done" ELSE "recv"

\* ------------------------------------------------------------------- Init
\* The tables as the concurrent runs start from them: user 1 created room 1 and
\* owns it, user 2 has no role, user 3 is banned from the room; no sysop.
InitTables ==
    /\ room_roles = [p \in Rooms \X Users |-> IF p[2] = 1 THEN "owner" ELSE "user"]
    /\ room_bans = {<<1, 3>>}
    /\ users = [u \in Users |-> "user"]

\* The process right after start-up, before any websocket was served; the
\* websockets outside live were turned away at the handshake.
InitRuntime(live) ==
    /\ rooms = <<>>
    /\ conn = [c \in Conns |-> [user_id |-> 0, role |-> "user"]]
    /\ ws = [c \in Conns |-> IF c \in live
                                THEN [state |-> "connecting", code |-> 0]
                                ELSE [state |-> "closed",
                                      code |-> WS_1008_POLICY_VIOLATION]]
    /\ pc = [c \in Conns |-> IF c \in live THEN "start" ELSE "done"]
    /\ local = [c \in Conns |-> [room_id |-> 0, user_id |-> 0]]
    /\ frame = [c \in Conns |-> NoFrame]
    /\ kick = [c \in Conns |-> NoConn]
    /\ budget = MaxMsgs
    /\ nbc = 0
    /\ njoined = [c \in Conns |-> 0]
    /\ nleft = [c \in Conns |-> 0]
    /\ lastSeq = [c \in Conns |-> 0]
    /\ lastEvent = NoEvent
    /\ lastPriv = NoPriv
    /\ lastCmd = NoCmd
    /\ lastLeave = NoLeave
    /\ skipped = {}
    /\ exc = [c \in Conns |-> "none"]

Init == InitTables /\ InitRuntime({1, 2})

\* Websockets 1 (user 1, the owner) and 2 (user 2) have joined room 1 and wait
\* in their message loops; websocket 3 is about to connect.
InitRoom ==
    /\ InitTables
    /\ rooms = <<<<1, 2>>>>
    /\ conn = [c \in Conns |-> IF c = 3 THEN [user_id |-> 0, role |-> "user"]
                                ELSE [user_id |-> c, role |-> RoleOf(1, c)]]
    /\ ws = [c \in Conns |-> [state |-> IF c = 3 THEN "connecting" ELSE "open",
                               code |-> 0]]
    /\ pc = [c \in Conns |-> IF c = 3 THEN "start" ELSE "recv"]
    /\ local = [c \in Conns |-> IF c = 3 THEN [room_id |-> 0, user_id |-> 0]
                                 ELSE [room_id |-> 1, user_id |-> c]]
    /\ frame = [c \in Conns |-> NoFrame]
    /\ kick = [c \in Conns |-> NoConn]
    /\ budget = RoomMsgs
    /\ nbc = 2
    /\ njoined = [c \in Conns |-> IF c = 3 THEN 0 ELSE 1]
    /\ nleft = [c \in Conns |-> 0]
    /\ lastSeq = [c \in Conns |-> IF c = 3 THEN 0 ELSE 2]
    /\ lastEvent = [type |-> "user_joined", seq |-> 2, room |-> 1, user_id |-> 2,
                     ws |-> 2, users |-> UsersOf(<<1, 2>>, conn), message |-> <<>>,
                     role |-> "user"]
    /\ lastPriv = NoPriv
    /\ lastCmd = NoCmd
    /\ lastLeave = NoLeave
    /\ skipped = {}
    /\ exc = [c \in Conns |-> "none"]

\* Any roles for users 1 and 2, one websocket: every row of the authorization
\* table occurs.
InitTablesAny ==
    /\ room_roles \in [Rooms \X Users -> RoomRoleNames]
    /\ \A r \in Rooms : room_roles[<<r, 3>>] = "user"
    /\ users \in [Users -> GlobalRoleNames]
    /\ users[3] = "user"
    /\ room_bans = {<<1, 3>>}

InitAuth == InitTablesAny /\ InitRuntime({1})

\* ------------------------------------------------------ websocket_endpoint
\* Lines 535-555 and the call of ws.accept(): the identity and ban checks.  A
\* rejected attempt is closed with the policy-violation code and returns.
HandshakeWith(c, cookie, query, r) ==
    /\ pc[c] = "start"
    /\ LET u == ResolveUser(cookie, query)
       IN  IF u = 0 \/ is_banned(r, u)
           THEN /\ ws' = [ws EXCEPT ![c] = [state |-> "closed",
                                            code |-> WS_1008_POLICY_VIOLATION]]
                /\ pc' = [pc EXCEPT ![c] = "done"]
                /\ local' = local
           ELSE /\ local' = [local EXCEPT ![c] = [room_id |-> r, user_id |-> u]]
                /\ pc' = [pc EXCEPT ![c] = "accept"]
                /\ ws' = ws
    /\ UNCHANGED <<rooms, conn, db, frame, kick, budget, nbc, exc>>
    /\ UNCHANGED hist

\* The ids of the rooms there are: those the tables have rows for.
RoomIds == {p[1] : p \in DOMAIN room_roles}

\* A websocket arrives for room r with whatever cookie and query parameter.
Handshake(c) ==
    \E cookie \in Tokens, query \in Tokens, r \in RoomIds :
        HandshakeWith(c, cookie, query, r)

\* broadcast's loop (lines 345-350) from entry i of the snapshot up to its next
\* suspension, over the live list and the transports w.  A send to a closed
\* transport raises at once and the except clause runs conns.remove(conn), which
\* raises ValueError when the entry is gone; a send that goes out is awaited.
RECURSIVE Advance(_, _, _, _)
Advance(w, live, snap, i) ==
    IF i > Len(snap) THEN [live |-> live, at |-> i, out |-> "end"]
    ELSE IF w[snap[i]].state = "open" THEN [live |-> live, at |-> i, out |-> "sent"]
    ELSE IF InList(live, snap[i]) THEN Advance(w, ListRemove(live, snap[i]), snap, i + 1)
    ELSE [live |-> live, at |-> i, out |-> "raised"]

\* Session c, inside broadcast, is left awaiting the send Advance stopped at, or
\* broadcast returned (line 351) and c goes on where it was called from.
Suspend(c, w, r, res, snap, seq, ctx) ==
    /\ rooms' = SetRoom(r, res.live)
    /\ lastSeq' = IF res.out = "sent" THEN [lastSeq EXCEPT ![snap[res.at]] = seq]
                  ELSE lastSeq
    /\ frame' = [frame EXCEPT ![c] =
                    IF res.out = "sent"
                    THEN [room |-> r, snap |-> snap, idx |-> res.at, ctx |-> ctx,
                          seq |-> seq]
                    ELSE NoFrame]
    /\ pc' = [pc EXCEPT ![c] = IF res.out = "sent" THEN "bcast" ELSE After(ctx)]
    /\ ws' = IF res.out = "end" /\ After(ctx) = "done" THEN Exit(w, c) ELSE w

\* manager.connect after ws.accept() returned (lines 317-331): register the
\* connection and invoke the user_joined broadcast.
Connect(c) ==
    /\ pc[c] = "accept"
    /\ LET r == local[c].room_id
           u == local[c].user_id
           role == RoleOf(r, u)
           info == [user_id |-> u, role |-> role]
           l == Append(RoomConns(r), c)
           cs == [conn EXCEPT ![c] = info]
           w == [ws EXCEPT ![c].state = "open"]
       IN  /\ conn' = cs
           /\ nbc' = nbc + 1
           /\ njoined' = [njoined EXCEPT ![c] = @ + 1]
           /\ lastEvent' = [type |-> "user_joined", seq |-> nbc + 1, room |-> r,
                            user_id |-> u, ws |-> c, users |-> UsersOf(l, cs),
                            message |-> <<>>, role |-> role]
           /\ Suspend(c, w, r, Advance(w, l, l, 1), l, nbc + 1, "connect")
    /\ UNCHANGED <<db, local, kick, budget, exc>>
    /\ UNCHANGED <<nleft, lastPriv, lastCmd, lastLeave, skipped>>

\* manager.disconnect(room_id, ws) as written: the list after the call, and the
\* value of the loop variable it returns (the last entry looked at when nothing
\* matched; unbound, so that the return raises, when the list was empty).
disconnect_list(l, c) == ListRemove(l, c)

disconnect_return(l, c) ==
    IF InList(l, c) THEN c ELSE IF l = <<>> THEN NoConn ELSE l[Len(l)]

\* The finally block (lines 604-613) of session c, e the exception in flight, l
\* the room's list: disconnect, then the user_left broadcast for the conn returned.
Finally(c, e, l) ==
    LET r == local[c].room_id
        l2 == disconnect_list(l, c)
        ret == disconnect_return(l, c)
        leave == [by |-> c, found |-> InList(l, c), returned |-> ret,
                  changed |-> (l2 # l), raised |-> (ret = NoConn)]
    IN  /\ lastLeave' = leave
        /\ IF ret = NoConn
           THEN \* return conn: UnboundLocalError
                /\ rooms' = SetRoom(r, l2)
                /\ pc' = [pc EXCEPT ![c] = "done"]
                /\ exc' = [exc EXCEPT ![c] = "UnboundLocalError"]
                /\ ws' = Exit(ws, c)
                /\ frame' = [frame EXCEPT ![c] = NoFrame]
                /\ UNCHANGED <<nbc, nleft, lastEvent, lastSeq>>
           ELSE /\ nbc' = nbc + 1
                /\ nleft' = [nleft EXCEPT ![ret] = @ + 1]
                /\ lastEvent' = [type |-> "user_left", seq |-> nbc + 1, room |-> r,
                                 user_id |-> conn[ret].user_id, ws |-> ret,
                                 users |-> UsersOf(l2, conn), message |-> <<>>,
                                 role |-> "none"]
                /\ exc' = [exc EXCEPT ![c] = e]
                /\ Suspend(c, ws, r, Advance(ws, l2, l2, 1), l2, nbc + 1, "finally")

\* manager.broadcast invoked by session c inside its message loop, the conn
\* dicts being cs.
StartBroadcast(c, ev, ctx) ==
    LET r == local[c].room_id
        l == RoomConns(r)
    IN  /\ nbc' = nbc + 1
        /\ lastEvent' = [ev EXCEPT !.seq = nbc + 1, !.room = r]
        /\ Suspend(c, ws, r, Advance(ws, l, l, 1), l, nbc + 1, ctx)

\* Session c resumes inside broadcast after the send it awaited.
BcastStep(c) ==
    /\ pc[c] = "bcast"
    /\ LET f == frame[c]
           res == Advance(ws, RoomConns(f.room), f.snap, f.idx + 1)
       IN  IF res.out # "raised"
           THEN /\ Suspend(c, ws, f.room, res, f.snap, f.seq, f.ctx)
                /\ UNCHANGED <<nbc, nleft, lastEvent, lastLeave, skipped, exc>>
           ELSE \* ValueError out of broadcast
                /\ skipped' = skipped \cup {f.snap[j] : j \in (res.at + 1)..Len(f.snap)}
                /\ IF f.ctx \in {"loop", "chat"}
                   THEN Finally(c, "ValueError", res.live)
                   ELSE /\ rooms' = SetRoom(f.room, res.live)
                        /\ frame' = [frame EXCEPT ![c] = NoFrame]
                        /\ pc' = [pc EXCEPT ![c] = IF f.ctx = "image" THEN "recv" ELSE "done"]
                        /\ exc' = [exc EXCEPT ![c] = IF f.ctx = "image" THEN @ ELSE "ValueError"]
                        /\ ws' = IF f.ctx = "image" THEN ws ELSE Exit(ws, c)
                        /\ UNCHANGED <<nbc, nleft, lastEvent, lastLeave, lastSeq>>
    /\ UNCHANGED <<conn, db, local, kick, budget, njoined, lastPriv, lastCmd>>

\* receive_json on a transport that was closed: the loop ends, finally runs.
RecvDisconnect(c) ==
    /\ pc[c] = "recv"
    /\ ~Sendable(c)
    /\ Finally(c, "none", RoomConns(local[c].room_id))
    /\ UNCHANGED <<conn, db, local, kick, budget, njoined, lastPriv, lastCmd, skipped>>

CanRead(c) == pc[c] = "recv" /\ Sendable(c) /\ budget > 0

\* A chat_message: broadcast unless the text is empty after strip().
RecvChat(c) ==
    /\ CanRead(c)
    /\ budget' = budget - 1
    /\ \E text \in Texts :
        IF Strip(text) # <<>>
        THEN StartBroadcast(c, [type |-> "chat_message", seq |-> 0, room |-> 0,
                                user_id |-> local[c].user_id, ws |-> c,
                                users |-> <<>>, message |-> Strip(text),
                                role |-> "none"], "chat")
        ELSE UNCHANGED <<rooms, ws, pc, frame, nbc, lastEvent, lastSeq>>
    /\ UNCHANGED <<conn, db, local, kick, exc>>
    /\ UNCHANGED <<njoined, nleft, lastPriv, lastCmd, lastLeave, skipped>>

\* An image_upload: the decoded image is stored and its URL broadcast; whatever
\* is raised on the way, the broadcast's own exception too, is swallowed.
RecvImage(c) ==
    /\ CanRead(c)
    /\ budget' = budget - 1
    /\ \E stored \in BOOLEAN :
        IF stored
        THEN StartBroadcast(c, [type |-> "image_message", seq |-> 0, room |-> 0,
                                user_id |-> local[c].user_id, ws |-> c,
                                users |-> <<>>, message |-> <<>>,
                                role |-> "none"], "image")
        ELSE UNCHANGED <<rooms, ws, pc, frame, nbc, lastEvent, lastSeq>>
    /\ UNCHANGED <<conn, db, local, kick, exc>>
    /\ UNCHANGED <<njoined, nleft, lastPriv, lastCmd, lastLeave, skipped>>

\* A message of any other type: no branch of the if/elif chain takes it.
RecvOther(c) ==
    /\ CanRead(c)
    /\ budget' = budget - 1
    /\ UNCHANGED <<rooms, conn, db, ws, pc, local, frame, kick, nbc, exc>>
    /\ UNCHANGED hist

\* ---------------------------------------------------------- handle_command
\* The decision handle_command takes for session c's command, as it records it.
Decision(c, command) ==
    LET r == local[c].room_id
        u == local[c].user_id
    IN  [by |-> c, command |-> command, global_role |-> users[u],
         caller_role |-> RoleOf(r, u),
         allowed |-> Allowed(users[u], RoleOf(r, u), command)]

\* A private send_json to handle t by session c inside the message loop: the
\* event is delivered, or the send raises and the handler unwinds to finally.
PrivateSend(c, t, type, goes, k) ==
    IF Sendable(t)
    THEN /\ lastPriv' = [type |-> type, to |-> t, by |-> c]
         /\ pc' = [pc EXCEPT ![c] = goes]
         /\ kick' = [kick EXCEPT ![c] = k]
         /\ UNCHANGED <<rooms, ws, frame, nbc, nleft, lastEvent, lastLeave, lastSeq, exc>>
    ELSE /\ Finally(c, "SendError", RoomConns(local[c].room_id))
         /\ UNCHANGED <<lastPriv, kick>>

\* kick (lines 635-639) and warn (641-644) when the caller has the privilege.
CmdKickWarn(c) ==
    /\ CanRead(c)
    /\ budget' = budget - 1
    /\ \E command \in {"kick", "warn"}, target \in Users :
        LET d == Decision(c, command)
            t == get_connection(local[c].room_id, target)
        IN  /\ d.allowed
            /\ lastCmd' = d
            /\ IF t = NoConn
               THEN UNCHANGED <<rooms, ws, pc, frame, kick, nbc, nleft, lastEvent,
                                lastPriv, lastLeave, lastSeq, exc>>
               ELSE IF command = "kick"
                    THEN PrivateSend(c, t, "kicked", "kick_close", t)
                    ELSE PrivateSend(c, t, "warn", "recv", NoConn)
    /\ UNCHANGED <<conn, db, local, njoined, skipped>>

\* The forced close of the kick target (line 639).
KickClose(c) ==
    /\ pc[c] = "kick_close"
    /\ LET t == kick[c]
       IN  IF Sendable(t)
           THEN /\ ws' = [ws EXCEPT ![t] = [state |-> "closed",
                                            code |-> WS_1000_NORMAL_CLOSURE]]
                /\ pc' = [pc EXCEPT ![c] = "recv"]
                /\ UNCHANGED <<rooms, frame, nbc, nleft, lastEvent, lastLeave, lastSeq,
                               exc>>
           ELSE Finally(c, "SendError", RoomConns(local[c].room_id))
    /\ kick' = [kick EXCEPT ![c] = NoConn]
    /\ UNCHANGED <<conn, db, local, budget, njoined, lastPriv, lastCmd, skipped>>

\* assign_room_role keeping one owner per room: the owners there were become hosts
assign_room_role_SingleOwner(r, u, role) ==
    IF role \notin {"owner", "host"} THEN room_roles
    ELSE [p \in DOMAIN room_roles |->
             IF p = <<r, u>> THEN role
             ELSE IF p[1] = r /\ role = "owner" /\ room_roles[p] = "owner" THEN "host"
             ELSE room_roles[p]]

\* assign_room_role: the row of (room, user) is written for owner and host only.
assign_room_role(r, u, role) ==
    IF role \notin {"owner", "host"} THEN room_roles
    ELSE [room_roles EXCEPT ![<<r, u>>] = role]

\* The cached role written on the connection get_connection returns.
UpdateCached(r, u, role) ==
    LET t == get_connection(r, u)
    IN  IF t = NoConn THEN conn ELSE [conn EXCEPT ![t].role = role]

\* assign_host (645-656) and assign_owner (657-667) when the caller has the
\* privilege: the table row, the cached role, then the role_update broadcast.
CmdAssign(c) ==
    /\ CanRead(c)
    /\ budget' = budget - 1
    /\ \E command \in {"assign_host", "assign_owner"}, target \in Users :
        LET d == Decision(c, command)
            r == local[c].room_id
            role == IF command = "assign_host" THEN "host" ELSE "owner"
            cs == UpdateCached(r, target, role)
        IN  /\ d.allowed
            /\ lastCmd' = d
            /\ room_roles' = assign_room_role(r, target, role)
            /\ conn' = cs
            /\ StartBroadcast(c, [type |-> "role_update", seq |-> 0, room |-> 0,
                                  user_id |-> target, ws |-> NoConn,
                                  users |-> UsersOf(RoomConns(r), cs),
                                  message |-> <<>>, role |-> role], "loop")
    /\ UNCHANGED <<room_bans, users, local, kick, exc>>
    /\ UNCHANGED <<njoined, nleft, lastPriv, lastLeave, skipped>>

\* The else branch (668-675): the command is unknown or the caller lacks the
\* privilege; the error goes to the connection get_connection finds for the caller.
CmdDenied(c) ==
    /\ CanRead(c)
    /\ budget' = budget - 1
    /\ \E command \in Commands :
        LET d == Decision(c, command)
            t == get_connection(local[c].room_id, local[c].user_id)
        IN  /\ ~d.allowed
            /\ lastCmd' = d
            /\ IF t = NoConn
               THEN UNCHANGED <<rooms, ws, pc, frame, kick, nbc, nleft, lastEvent,
                                lastPriv, lastLeave, lastSeq, exc>>
               ELSE PrivateSend(c, t, "error", "recv", NoConn)
    /\ UNCHANGED <<conn, db, local, njoined, skipped>>

\* ------------------------------------------------------------ environment
\* The client closes its side, or the network drops: sends to it fail from now on.
ClientClose(c) ==
    /\ ws[c].state = "open"
    /\ ws' = [ws EXCEPT ![c].state = "closed"]
    /\ UNCHANGED <<rooms, conn, db, pc, local, frame, kick, budget, nbc, exc>>
    /\ UNCHANGED hist

Next ==
    \E c \in Conns :
        \/ Handshake(c)
        \/ Connect(c)
        \/ BcastStep(c)
        \/ RecvDisconnect(c)
        \/ RecvChat(c)
        \/ RecvImage(c)
        \/ RecvOther(c)
        \/ CmdKickWarn(c)
        \/ KickClose(c)
        \/ CmdAssign(c)
        \/ CmdDenied(c)
        \/ ClientClose(c)

Spec == Init /\ [][Next]_vars

\* Two rooms.  User 1 owns both and sits in both: websocket 1 in room 1,
\* websocket 3 in room 2, each in its message loop; websocket 2 is about to
\* connect to either room.
InitIso ==
    /\ room_roles = [p \in {1, 2} \X Users |-> IF p[2] = 1 THEN "owner" ELSE "user"]
    /\ room_bans = {<<1, 3>>}
    /\ users = [u \in Users |-> "user"]
    /\ rooms = <<<<1>>, <<3>>>>
    /\ conn = [c \in Conns |-> IF c = 2 THEN [user_id |-> 0, role |-> "user"]
                                ELSE [user_id |-> 1, role |-> "owner"]]
    /\ ws = [c \in Conns |-> [state |-> IF c = 2 THEN "connecting" ELSE "open",
                               code |-> 0]]
    /\ pc = [c \in Conns |-> IF c = 2 THEN "start" ELSE "recv"]
    /\ local = [c \in Conns |-> IF c = 2 THEN [room_id |-> 0, user_id |-> 0]
                                 ELSE [room_id |-> IF c = 1 THEN 1 ELSE 2,
                                       user_id |-> 1]]
    /\ frame = [c \in Conns |-> NoFrame]
    /\ kick = [c \in Conns |-> NoConn]
    /\ budget = RoomMsgs
    /\ nbc = 2
    /\ njoined = [c \in Conns |-> IF c = 2 THEN 0 ELSE 1]
    /\ nleft = [c \in Conns |-> 0]
    /\ lastSeq = [c \in Conns |-> IF c = 2 THEN 0 ELSE c]
    /\ lastEvent = [type |-> "user_joined", seq |-> 2, room |-> 2, user_id |-> 1,
                     ws |-> 3, users |-> <<[user_id |-> 1, role |-> "owner"]>>,
                     message |-> <<>>, role |-> "owner"]
    /\ lastPriv = NoPriv
    /\ lastCmd = NoCmd
    /\ lastLeave = NoLeave
    /\ skipped = {}
    /\ exc = [c \in Conns |-> "none"]

SpecIso == InitIso /\ [][Next]_vars

\* ban_user(room_id, user_id): the row goes into room_bans.  No handler of
\* main.py calls it; an administrator's tool does, at any time.
ban_user(r, u) ==
    /\ room_bans' = room_bans \cup {<<r, u>>}
    /\ UNCHANGED <<rooms, conn, room_roles, users, ws, pc, local, frame, kick,
                   budget, nbc, exc>>
    /\ UNCHANGED hist

NextBan == Next \/ \E r \in Rooms, u \in Users : ban_user(r, u)

\* One websocket, and bans written while it is served.
InitBan == InitTables /\ InitRuntime({1})

SpecBan == InitBan /\ [][NextBan]_vars

SpecAuth == InitAuth /\ [][Next]_vars

SpecRoom == InitRoom /\ [][Next]_vars

\* ------------------------------------------------------------- properties
\* The sessions that got through manager.connect: registered at some time.
Joined(c) == pc[c] \notin {"start", "accept"} /\ local[c].user_id # 0

\* C1: every session that joined a room invoked exactly one user_joined
\* broadcast (and no other session any), and a user_joined event's users
\* snapshot holds an entry for the user who joined.
C1_JoinedOnceWithSelf ==
    /\ \A c \in Conns : njoined[c] = IF Joined(c) THEN 1 ELSE 0
    /\ lastEvent.type = "user_joined" =>
          \E i \in 1..Len(lastEvent.users) :
              lastEvent.users[i].user_id = lastEvent.user_id

\* C1 witness: the second join of a room, both users in its snapshot.
C1_Witness ==
    /\ lastEvent.type = "user_joined"
    /\ Len(lastEvent.users) = 2
    /\ njoined[lastEvent.ws] = 1

\* C2: no connection is named by more than one user_left broadcast.
C2_AtMostOneUserLeft == \A c \in Conns : nleft[c] <= 1

\* C3: a teardown broadcasts user_left only for its own connection, found and
\* removed by it: the connection a user_left names is not registered, and a
\* teardown that does not find its connection broadcasts nothing and raises nothing.
C3_UserLeftOnlyIfRemoved ==
    /\ lastEvent.type = "user_left" => lastEvent.ws \notin Members(lastEvent.room)
    /\ \A c \in Conns : exc[c] # "UnboundLocalError"

\* C4: disconnect returns the entry of the handle it was given, or none when
\* no entry matches, and then raises nothing and leaves the list as it was.
C4_LeaveIdempotent ==
    lastLeave.by # NoConn =>
        /\ ~lastLeave.raised
        /\ lastLeave.returned = IF lastLeave.found THEN lastLeave.by ELSE NoConn
        /\ ~lastLeave.found => ~lastLeave.changed

\* The authorization table of the specification.
AuthTable(global_role, room_role, command) ==
    CASE command \in {"kick", "warn"} ->
            global_role = "sysop" \/ room_role \in {"owner", "host"}
      [] command \in {"assign_host", "assign_owner"} ->
            global_role = "sysop" \/ room_role = "owner"
      [] OTHER -> FALSE

\* C5: the branch handle_command takes is the authorization table's answer for
\* the caller's global role, the caller's room role and the command.
C5_DecisionIsTable ==
    lastCmd.by # NoConn =>
        /\ lastCmd.global_role = users[local[lastCmd.by].user_id]
        /\ lastCmd.allowed =
              AuthTable(lastCmd.global_role, lastCmd.caller_role, lastCmd.command)

\* C5 witness: a sysop's unknown command was denied.
C5_Witness ==
    /\ lastCmd.by # NoConn
    /\ lastCmd.global_role = "sysop"
    /\ lastCmd.command = "ban"
    /\ ~lastCmd.allowed

\* C6: a denied command changes no role, no cached role and no membership,
\* broadcasts nothing, and leaves the caller in its message loop.
C6_DeniedChangesNothing ==
    [][\A c \in Conns :
          CmdDenied(c) =>
              /\ room_roles' = room_roles
              /\ conn' = conn
              /\ rooms' = rooms
              /\ nbc' = nbc
              /\ pc'[c] = "recv"]_vars

\* C7: an error event is delivered on the connection of the session that
\* issued the command.
C7_ErrorToCallerOnly == lastPriv.type = "error" => lastPriv.to = lastPriv.by

\* C8: a connection that was force-closed by a kick and whose session has ended
\* is out of the registry and was announced by a user_left broadcast.
C8_KickedLeaves ==
    \A t \in Conns :
        (ws[t].code = WS_1000_NORMAL_CLOSURE /\ pc[t] = "done") =>
            /\ t \notin Members(local[t].room_id)
            /\ nleft[t] >= 1

\* C9: a failed send never ends a broadcast: no connection of a broadcast's
\* snapshot is left without a send because the send to another one failed.
C9_FailedSendDoesNotAbort == skipped = {}

\* C10: every connection receives the broadcasts of its room in the order they
\* were invoked.
C10_BroadcastsInOrder == [][\A c \in Conns : lastSeq'[c] >= lastSeq[c]]_vars

\* C11: every connection registered in a room has a cached role equal to the
\* role the room_roles table gives its user in that room.
C11_CachedRoleIsDirectory ==
    \A r \in DOMAIN rooms :
        \A c \in Members(r) : conn[c].role = room_roles[<<r, conn[c].user_id>>]

\* C12: a role_update event follows the write of the target's row, and every
\* entry of its users snapshot that is the target's carries the assigned role.
C12_RoleUpdateShowsNewRole ==
    lastEvent.type = "role_update" =>
        /\ lastEvent.role \in {"host", "owner"}
        /\ \A i \in 1..Len(lastEvent.users) :
              lastEvent.users[i].user_id = lastEvent.user_id =>
                  lastEvent.users[i].role = lastEvent.role

\* An attempt that fails authentication (the cookie, or the query parameter
\* when there is no cookie, is missing, no integer or no user's id) or whose
\* user is banned from the room.
FailsAdmission(cookie, query, r) ==
    LET tok == IF cookie.kind # "absent" THEN cookie ELSE query
    IN  \/ tok.kind # "int"
        \/ tok.val \notin DOMAIN users
        \/ <<r, tok.val>> \in room_bans

\* C13: an attempt that fails authentication or whose user is banned is closed
\* with the policy-violation code, straight from the handshake, and no room's
\* membership changes and no event is sent.
C13_RejectedTouchesNothing ==
    [][\A c \in Conns, cookie \in Tokens, query \in Tokens, r \in Rooms :
          (HandshakeWith(c, cookie, query, r) /\ FailsAdmission(cookie, query, r)) =>
              /\ ws'[c] = [state |-> "closed", code |-> WS_1008_POLICY_VIOLATION]
              /\ pc'[c] = "done"
              /\ rooms' = rooms
              /\ conn' = conn
              /\ nbc' = nbc
              /\ lastSeq' = lastSeq
              /\ lastPriv' = lastPriv]_vars

\* C13 witness: an attempt was turned away while the room had members.
C13_Witness ==
    \E c \in Conns :
        /\ pc[c] = "done"
        /\ ws[c] = [state |-> "closed", code |-> WS_1008_POLICY_VIOLATION]
        /\ njoined[c] = 0
        /\ Members(1) # {}
        /\ c \notin Members(1)

\* C14: no connection registered in a room belongs to a user banned from it.
C14_BannedNotRegistered ==
    \A r \in DOMAIN rooms :
        \A c \in Members(r) : <<r, conn[c].user_id>> \notin room_bans

\* C15: a kick never ends the session of a caller whose own transport is open:
\* whatever happened to the target's transport, no error leaves handle_command
\* and the caller goes on.
C15_KickNeverEndsCaller ==
    [][\A c \in Conns :
          (/\ Sendable(c)
           /\ (CmdKickWarn(c) /\ lastCmd'.command = "kick") \/ KickClose(c)) =>
              /\ exc'[c] = "none"
              /\ pc'[c] \in {"recv", "kick_close"}]_vars

\* The state of a session: 0 Connecting, 1 Authenticated, 2 Active, 3 tearing
\* down or Closed.
PhaseOf(p, ctx) ==
    CASE p = "start" -> 0
      [] p = "accept" -> 1
      [] p = "done" -> 3
      [] p = "bcast" /\ ctx = "finally" -> 3
      [] OTHER -> 2

\* A step of session c's own task.
SessionStep(c) ==
    \/ Handshake(c)
    \/ Connect(c)
    \/ BcastStep(c)
    \/ RecvDisconnect(c)
    \/ RecvChat(c)
    \/ RecvImage(c)
    \/ RecvOther(c)
    \/ CmdKickWarn(c)
    \/ KickClose(c)
    \/ CmdAssign(c)
    \/ CmdDenied(c)

\* C16: a session only moves forward through its states, and once Closed it
\* stays Closed and its task takes no further step: it reads no message and
\* changes neither the registry nor the tables.
C16_ForwardAndClosedOnce ==
    [][\A c \in Conns :
          /\ PhaseOf(pc'[c], frame'[c].ctx) >= PhaseOf(pc[c], frame[c].ctx)
          /\ pc[c] = "done" => (pc'[c] = "done" /\ ~SessionStep(c))]_vars

\* C16 witness: a session that was Active is Closed after a teardown that
\* announced it.
C16_Witness ==
    \E c \in Conns :
        /\ pc[c] = "done"
        /\ njoined[c] = 1
        /\ nleft[c] = 1
        /\ exc[c] = "none"

\* C17: a connection that was registered, has left the registry and whose
\* session has ended was announced by a user_left broadcast naming its user.
\* The case looked at is final: a member is still there to be told, and no other
\* session is or can become a connection of the same user.
C17_DepartureAnnounced ==
    \A c \in Conns :
        (/\ njoined[c] = 1
         /\ pc[c] = "done"
         /\ c \notin Members(local[c].room_id)
         /\ \E d \in Members(local[c].room_id) : pc[d] = "recv" /\ Sendable(d)
         /\ \A d \in Conns \ {c} :
               pc[d] \notin {"start", "accept"} /\ conn[d].user_id # conn[c].user_id)
            => nleft[c] >= 1

\* C18: a message of unknown type changes nothing, an unknown command is
\* answered with an error event, and after either the session is in its
\* message loop.
C18_UnknownIsNeverFatal ==
    [][\A c \in Conns :
          /\ RecvOther(c) =>
                (pc'[c] = "recv" /\ rooms' = rooms /\ conn' = conn /\ nbc' = nbc
                    /\ lastPriv' = lastPriv)
          /\ (CmdDenied(c) /\ lastCmd'.command \notin
                    {"kick", "warn", "assign_host", "assign_owner"}) =>
                (/\ lastPriv'.type = "error"
                 /\ lastPriv'.by = c
                 /\ pc'[c] = "recv"
                 /\ exc'[c] = "none")]_vars

\* C19: a chat_message with empty text broadcasts nothing and changes nothing;
\* one with text invokes one chat_message broadcast with the sender's id and
\* the stripped text, which leaves out no connection of the room.
C19_ChatReachesRoom ==
    [][\A c \in Conns :
          /\ (RecvChat(c) /\ nbc' = nbc) =>
                (pc'[c] = "recv" /\ rooms' = rooms /\ lastSeq' = lastSeq)
          /\ (RecvChat(c) /\ nbc' # nbc) =>
                (/\ nbc' = nbc + 1
                 /\ lastEvent'.type = "chat_message"
                 /\ lastEvent'.user_id = local[c].user_id
                 /\ lastEvent'.message # <<>>)
          /\ (BcastStep(c) /\ frame[c].ctx = "chat") => skipped' = skipped]_vars

\* C20: a broadcast goes through its whole snapshot, one send per entry,
\* whatever other tasks did to the list while it was suspended, and delivers to
\* no connection outside the snapshot.
C20_BroadcastCoversSnapshot ==
    [][\A c \in Conns :
          BcastStep(c) =>
              /\ Advance(ws, RoomConns(frame[c].room), frame[c].snap,
                         frame[c].idx + 1).out # "raised"
              /\ \A d \in Conns :
                    lastSeq'[d] # lastSeq[d] => InList(frame[c].snap, d)]_vars

\* C21: the handle of a session whose handler has returned or raised is in no
\* room's list.
C21_NoGhostMembers ==
    \A c \in Conns :
        pc[c] = "done" => \A r \in DOMAIN rooms : c \notin Members(r)

\* The connections registered in room r and in no other room.
OnlyIn(r) == {d \in Members(r) : \A x \in DOMAIN rooms : x # r => ~InList(rooms[x], d)}

\* C22: a step a session takes for its room leaves every other room's list and
\* role rows as they were, and neither changes the cached role of, nor delivers
\* a broadcast or a private event to, nor closes a connection registered only
\* in another room.
C22_RoomsIsolated ==
    [][\A c \in Conns :
          SessionStep(c) =>
              \A r \in RoomIds \ {local'[c].room_id} :
                  /\ RoomConns(r) = IF r \in DOMAIN rooms' THEN rooms'[r] ELSE <<>>
                  /\ \A u \in Users : room_roles'[<<r, u>>] = room_roles[<<r, u>>]
                  /\ \A d \in OnlyIn(r) :
                        /\ conn'[d] = conn[d]
                        /\ lastSeq'[d] = lastSeq[d]
                        /\ ws'[d] = ws[d]
                        /\ lastPriv' # lastPriv => lastPriv'.to # d]_vars

\* C22 witness: a role was assigned in room 1 to a user who also sits in room 2.
C22_Witness ==
    /\ lastEvent.type = "role_update"
    /\ lastEvent.room = 1
    /\ \E d \in OnlyIn(2) : conn[d].user_id = lastEvent.user_id /\ pc[d] = "recv"

\* What an allowed assign_host or assign_owner of session c does to the roles:
\* the row of (room, target) becomes the assigned role and no other row changes;
\* the cached role of the target's first-matching connection becomes it and no
\* other conn dict changes.
AssignWritesOnlyTarget(c) ==
    LET r == local[c].room_id
        T == lastEvent'.user_id
        t == get_connection(r, T)
    IN  /\ room_roles'[<<r, T>>] = lastEvent'.role
        /\ \A p \in DOMAIN room_roles : p # <<r, T>> => room_roles'[p] = room_roles[p]
        /\ t # NoConn => conn'[t] = [conn[t] EXCEPT !.role = lastEvent'.role]
        /\ \A d \in Conns \ {t} : conn'[d] = conn[d]

\* C23 as claimed: an allowed assign_host or assign_owner changes only the
\* target's row and the cached role of the target's first-matching connection,
\* and the room's membership is unchanged.
C23_AssignChangesOnlyTarget ==
    [][\A c \in Conns :
          CmdAssign(c) => (AssignWritesOnlyTarget(c) /\ rooms' = rooms)]_vars

\* C23 as amended: the same for the roles; the membership loses only
\* connections whose transport is closed, removed by the role_update broadcast
\* when its send to them fails, and gains none.
C23_AssignPrunesOnlyDead ==
    [][\A c \in Conns :
          CmdAssign(c) =>
              /\ AssignWritesOnlyTarget(c)
              /\ DOMAIN rooms' = DOMAIN rooms
              /\ \A r \in DOMAIN rooms :
                    LET gone == {d \in Members(r) : ~InList(rooms'[r], d)}
                    IN  /\ rooms'[r] = SelectSeq(rooms[r], LAMBDA d : d \notin gone)
                        /\ \A d \in gone : r = local[c].room_id /\ ~Sendable(d)]_vars

\* C23 witness: an owner made another user owner and is still owner.
C23_Witness ==
    /\ lastEvent.type = "role_update"
    /\ lastEvent.role = "owner"
    /\ lastCmd.by # NoConn
    /\ local[lastCmd.by].user_id # lastEvent.user_id
    /\ room_roles[<<lastEvent.room, local[lastCmd.by].user_id>>] = "owner"
    /\ room_roles[<<lastEvent.room, lastEvent.user_id>>] = "owner"

====
